---- MODULE Spec2Model ----
(***************************************************************************)
(* The in-process cache engine of the backend (CacheService): the entry    *)
(* map, the per-type and global size limits, the eviction policies, lazy   *)
(* and swept expiry, and the hourly analytics counters.                    *)
(*                                                                         *)
(* Time is the millisecond clock read by Date.now() / new Date().  Every   *)
(* method of the service runs to completion on the single JavaScript       *)
(* thread, except set, whose body is split by `await` into the part that   *)
(* admits the entry and the part that inserts it.                          *)
(***************************************************************************)
EXTENDS Integers, Sequences, FiniteSets, TLC

VARIABLES cache, cacheAnalytics, totalRequests, totalHits, totalMisses,
          cacheConfig, pending, now, removedStatus, backgroundProcesses

vars == <<cache, cacheAnalytics, totalRequests, totalHits, totalMisses,
          cacheConfig, pending, now, removedStatus, backgroundProcesses>>

(***************************************************************************)
(* Bounds of the model.                                                    *)
(***************************************************************************)
MaxTicks == 2          \* steps of the clock in one behaviour
MaxSets == 3           \* set calls made in one behaviour
MaxRequests == 2       \* get calls made in one behaviour
MaxPending == 2        \* set calls in flight at the same time

(***************************************************************************)
(* Program constants.                                                      *)
(***************************************************************************)
MsPerSecond == 1000
MsPerHour == 3600000

Undefined == "undefined"
Null == "null"
NoStatus == "none"

\* Payloads are strings; JSON.stringify adds the two quotes.
P40 == "user-record-0000000000000000000000000x"
Q40 == "user-record-1111111111111111111111111y"
P70 == "cached-record-000000000000000000000000000000000000000000000000000000"
P120 == "user-record-0000000000000000000000000000000000000000000000000000000000000000000000000000000000000000000000000000000000"

calculateSize(value) == Len(value) + 2

(***************************************************************************)
(* The configuration: the defaults of the field initialiser and the        *)
(* partial configurations handed to updateCacheConfig.                     *)
(***************************************************************************)
DefaultConfig ==
  [ defaultTtl |-> 3600,
    maxSize |-> 100 * 1024 * 1024,
    evictionPolicy |-> "lru",
    compression |-> TRUE,
    typeConfigs |->
      [ user |-> [ttl |-> 1800, maxSize |-> 50 * 1024 * 1024],
        project |-> [ttl |-> 7200, maxSize |-> 100 * 1024 * 1024],
        figma |-> [ttl |-> 3600, maxSize |-> 20 * 1024 * 1024],
        documentation |-> [ttl |-> 86400, maxSize |-> 100 * 1024 * 1024],
        analytics |-> [ttl |-> 300, maxSize |-> 5 * 1024 * 1024],
        system |-> [ttl |-> 600, maxSize |-> 1 * 1024 * 1024] ] ]

SmallTypeConfigs ==
  [ user |-> [ttl |-> 2, maxSize |-> 100],
    system |-> [ttl |-> 1, maxSize |-> 70] ]

\* The controller's CacheConfigDto carries defaultTtl, maxSize and
\* evictionPolicy in every request, typeConfigs optionally.
ConfigDto(policy) ==
  [defaultTtl |-> 60, maxSize |-> 100, evictionPolicy |-> policy,
   typeConfigs |-> SmallTypeConfigs]

\* Object.assign(target, source): own properties of source overwrite target.
ObjectAssign(target, source) ==
  [ defaultTtl |-> IF "defaultTtl" \in DOMAIN source
                     THEN source.defaultTtl ELSE target.defaultTtl,
    maxSize |-> IF "maxSize" \in DOMAIN source
                  THEN source.maxSize ELSE target.maxSize,
    evictionPolicy |-> IF "evictionPolicy" \in DOMAIN source
                         THEN source.evictionPolicy ELSE target.evictionPolicy,
    compression |-> IF "compression" \in DOMAIN source
                      THEN source.compression ELSE target.compression,
    typeConfigs |-> IF "typeConfigs" \in DOMAIN source
                      THEN source.typeConfigs ELSE target.typeConfigs ]

(***************************************************************************)
(* Map<string, CacheEntry>: a sequence of entries in insertion order, at   *)
(* most one per key.                                                       *)
(***************************************************************************)
MapHas(m, key) == \E i \in 1..Len(m) : m[i].key = key

MapIndex(m, key) == CHOOSE i \in 1..Len(m) : m[i].key = key

MapGet(m, key) == IF MapHas(m, key) THEN m[MapIndex(m, key)] ELSE Undefined

MapSet(m, key, entry) ==
  IF MapHas(m, key) THEN [m EXCEPT ![MapIndex(m, key)] = entry]
  ELSE Append(m, entry)

MapDelete(m, key) == SelectSeq(m, LAMBDA e : e.key # key)

MapKeys(m) == {m[i].key : i \in 1..Len(m)}

RECURSIVE SumSizes(_)
SumSizes(entries) ==
  IF entries = <<>> THEN 0
  ELSE Head(entries).size + SumSizes(Tail(entries))

calculateTotalSize(m) == SumSizes(m)

calculateTotalSizeByType(m, type) ==
  SumSizes(SelectSeq(m, LAMBDA e : type = "all" \/ e.type = type))

\* An expiry test that never fires.
IsExpiredNever(entry, t) == FALSE

\* entry.expiresAt < new Date()
IsExpired(entry, t) == entry.expiresAt < t

(***************************************************************************)
(* Analytics: one bucket per hour, created on the first event of the hour. *)
(***************************************************************************)
HourKey(t) == t \div MsPerHour

EmptyBucket ==
  [ hits |-> 0, misses |-> 0, sets |-> 0, deletes |-> 0, expired |-> 0,
    evicted |-> 0, totalSize |-> 0, byType |-> [x \in {} |-> 0] ]

EmptyTypeAnalytics == [hits |-> 0, misses |-> 0, sets |-> 0, size |-> 0]

Bump(n, cond) == IF cond THEN n + 1 ELSE n

updateAnalytics(an, action, type, size, t) ==
  LET hourKey == HourKey(t)
      an1 == IF hourKey \in DOMAIN an THEN an ELSE an @@ (hourKey :> EmptyBucket)
      b == an1[hourKey]
      b1 == [b EXCEPT !.hits = Bump(@, action = "hit"),
                      !.misses = Bump(@, action = "miss"),
                      !.sets = Bump(@, action = "set"),
                      !.totalSize = IF action = "set" THEN @ + size ELSE @,
                      !.deletes = Bump(@, action = "delete"),
                      !.expired = Bump(@, action = "expired"),
                      !.evicted = Bump(@, action = "evicted")]
      bt == IF type \in DOMAIN b1.byType THEN b1.byType
            ELSE b1.byType @@ (type :> EmptyTypeAnalytics)
      ta == bt[type]
      ta1 == [ta EXCEPT !.hits = Bump(@, action = "hit"),
                        !.misses = Bump(@, action = "miss"),
                        !.sets = Bump(@, action = "set"),
                        !.size = IF action = "set" THEN @ + size ELSE @]
  IN [an1 EXCEPT ![hourKey] = [b1 EXCEPT !.byType = [bt EXCEPT ![type] = ta1]]]

\* Counter c summed over all buckets.
RECURSIVE SumBuckets(_, _, _)
SumBuckets(an, keys, c) ==
  IF keys = {} THEN 0
  ELSE LET k == CHOOSE x \in keys : TRUE
       IN an[k][c] + SumBuckets(an, keys \ {k}, c)

Recorded(an, c) == SumBuckets(an, DOMAIN an, c)

(***************************************************************************)
(* Eviction.                                                               *)
(***************************************************************************)
\* A comparator that orders by creation time under every policy.
SortKeyCreated(entry, policy) == entry.createdAt

SortKey(entry, policy) ==
  CASE policy = "lru" -> entry.lastAccessed
    [] policy = "lfu" -> entry.hitCount
    [] policy = "fifo" -> entry.createdAt
    [] OTHER -> 0

RECURSIVE InsertStable(_, _, _)
InsertStable(sorted, e, policy) ==
  IF sorted = <<>> THEN <<e>>
  ELSE IF SortKey(Head(sorted), policy) <= SortKey(e, policy)
       THEN <<Head(sorted)>> \o InsertStable(Tail(sorted), e, policy)
       ELSE <<e>> \o sorted

\* Array.prototype.sort with the policy's comparator (a stable sort).
RECURSIVE SortByPolicy(_, _)
SortByPolicy(entries, policy) ==
  IF entries = <<>> THEN <<>>
  ELSE InsertStable(SortByPolicy(SubSeq(entries, 1, Len(entries) - 1), policy),
                    entries[Len(entries)], policy)

\* The entries the loop of evictEntries removes, in order.
RECURSIVE TakeVictims(_, _, _)
TakeVictims(sorted, targetSize, evictedSize) ==
  IF sorted = <<>> \/ evictedSize >= targetSize THEN <<>>
  ELSE <<Head(sorted)>>
         \o TakeVictims(Tail(sorted), targetSize, evictedSize + Head(sorted).size)

\* An eviction that takes its victims from every type.
VictimsOfAnyType(m, type, targetSize, policy) ==
  TakeVictims(SortByPolicy(m, policy), targetSize, 0)

Victims(m, type, targetSize, policy) ==
  TakeVictims(SortByPolicy(SelectSeq(m, LAMBDA e : type = "all" \/ e.type = type),
                           policy),
              targetSize, 0)

\* A removal loop that records no event.
RecordNone(an, action, entries, t) == an

RECURSIVE RecordAll(_, _, _, _)
RecordAll(an, action, entries, t) ==
  IF entries = <<>> THEN an
  ELSE RecordAll(updateAnalytics(an, action, Head(entries).type, Head(entries).size, t),
                 action, Tail(entries), t)

SeqKeys(entries) == {entries[i].key : i \in 1..Len(entries)}

\* st = [cache, an, removed]: the map, the analytics and the status of the
\* entry objects already taken out of the map.
evictEntries(st, type, targetSize, policy, t) ==
  LET victims == Victims(st.cache, type, targetSize, policy)
      gone == SeqKeys(victims)
  IN [ cache |-> SelectSeq(st.cache, LAMBDA e : e.key \notin gone),
       an |-> RecordAll(st.an, "evicted", victims, t),
       removed |-> [k \in DOMAIN st.removed |->
                      IF k \in gone THEN "evicted" ELSE st.removed[k]] ]

\* The statements the loop of evictEntries runs for its victims, in the
\* order it runs them: for each victim the delete from the map, then the
\* assignment of its status, then the analytics event.
RECURSIVE evictionStatements(_)
evictionStatements(victims) ==
  IF victims = <<>> THEN <<>>
  ELSE << [op |-> "delete", key |-> Head(victims).key],
          [op |-> "status", key |-> Head(victims).key, status |-> "evicted"],
          [op |-> "updateAnalytics", key |-> Head(victims).key, action |-> "evicted"] >>
         \o evictionStatements(Tail(victims))

\* The limit enforceMemoryLimits compares against.
LimitOf(cfg, type) ==
  IF type # Undefined /\ type \in DOMAIN cfg.typeConfigs
    THEN cfg.typeConfigs[type].maxSize
    ELSE cfg.maxSize

\* An admission that leaves the incoming entry out of the total.
enforceMemoryLimitsNoNew(st, type, newEntrySize, cfg, t) ==
  LET maxSize == LimitOf(cfg, type)
      currentSize == calculateTotalSizeByType(st.cache, IF type = Undefined THEN "all" ELSE type)
  IN IF currentSize > maxSize
       THEN evictEntries(st, type, currentSize - maxSize, cfg.evictionPolicy, t)
       ELSE st

enforceMemoryLimits(st, type, newEntrySize, cfg, t) ==
  LET maxSize == LimitOf(cfg, type)
      total == calculateTotalSizeByType(st.cache, IF type = Undefined THEN "all" ELSE type)
      currentSize == IF newEntrySize > 0 THEN total + newEntrySize ELSE total
  IN IF currentSize > maxSize
       THEN evictEntries(st, type, currentSize - maxSize, cfg.evictionPolicy, t)
       ELSE st

(***************************************************************************)
(* Inputs of the operations.                                               *)
(***************************************************************************)
Keys == {"a", "b"}

\* The keys of the eviction scenario, in the order they are set.
Script == <<"a", "b", "c", "d">>

\* The key of the expiry scenario.
ExpiryKey == "x"

AllKeys == Keys \cup {Script[i] : i \in 1..Len(Script)} \cup {ExpiryKey}

\* [key, value, ttl, type] of the set calls.  A ttl of 0 stands for a ttl
\* that is omitted or 0: both are falsy in `ttl || config.ttl`.
SetInputs ==
  { [key |-> "a", value |-> P40, ttl |-> 0, type |-> "user"],
    [key |-> "a", value |-> P70, ttl |-> 1, type |-> "user"],
    [key |-> "b", value |-> P40, ttl |-> 0, type |-> "user"],
    [key |-> "b", value |-> P70, ttl |-> 0, type |-> "system"],
    [key |-> "b", value |-> P120, ttl |-> 1, type |-> "user"] }

Init ==
  /\ cache = <<>>
  /\ cacheAnalytics = [x \in {} |-> 0]
  /\ totalRequests = 0
  /\ totalHits = 0
  /\ totalMisses = 0
  /\ cacheConfig = DefaultConfig
  /\ pending = <<>>
  /\ now = 0
  /\ removedStatus = [k \in AllKeys |-> NoStatus]
  /\ backgroundProcesses = "started"

(***************************************************************************)
(* set, up to its await: resolve ttl and size, admit (evicting if the      *)
(* limit would be exceeded), then suspend.  The suspended call keeps its   *)
(* locals; limit is the maximum the admission compared against.            *)
(***************************************************************************)
Set(key, value, ttl, type) ==
  /\ LET config == IF type \in DOMAIN cacheConfig.typeConfigs
                     THEN cacheConfig.typeConfigs[type]
                     ELSE [ttl |-> cacheConfig.defaultTtl,
                           maxSize |-> cacheConfig.maxSize]
         entryTtl == IF ttl = 0 THEN config.ttl ELSE ttl
         expiresAt == now + entryTtl * MsPerSecond
         size == calculateSize(value)
         st == enforceMemoryLimits([cache |-> cache, an |-> cacheAnalytics,
                                    removed |-> removedStatus],
                                   type, size, cacheConfig, now)
     IN /\ cache' = st.cache
        /\ cacheAnalytics' = st.an
        /\ removedStatus' = st.removed
        /\ pending' = Append(pending,
                             [key |-> key, type |-> type, value |-> value,
                              size |-> size, expiresAt |-> expiresAt,
                              ttl |-> entryTtl,
                              limit |-> LimitOf(cacheConfig, type)])
  /\ UNCHANGED <<backgroundProcesses, totalRequests, totalHits, totalMisses, cacheConfig, now>>

\* A resumed call that stamps the entry as expiring at its creation.
NewEntryNoTtl(p, t) ==
  [key |-> p.key, type |-> p.type, value |-> p.value, size |-> p.size,
   hitCount |-> 0, status |-> "active", lastAccessed |-> t,
   expiresAt |-> t, createdAt |-> t, ttl |-> p.ttl]

\* The entry the resumed call builds.
NewEntry(p, t) ==
  [key |-> p.key, type |-> p.type, value |-> p.value, size |-> p.size,
   hitCount |-> 0, status |-> "active", lastAccessed |-> t,
   expiresAt |-> p.expiresAt, createdAt |-> t, ttl |-> p.ttl]

\* set, after its await: build the entry, insert it, record the event.
SetResume ==
  /\ pending # <<>>
  /\ LET p == Head(pending)
     IN /\ cache' = MapSet(cache, p.key, NewEntry(p, now))
        /\ cacheAnalytics' = updateAnalytics(cacheAnalytics, "set", p.type, p.size, now)
  /\ pending' = Tail(pending)
  /\ UNCHANGED <<backgroundProcesses, totalRequests, totalHits, totalMisses, cacheConfig, now,
                 removedStatus>>

\* A get that returns whatever the map holds.
GetReturnUnchecked(m, key, t) ==
  IF ~MapHas(m, key) THEN Null ELSE MapGet(m, key).value

\* What get(key) returns at time t.
GetReturn(m, key, t) ==
  IF ~MapHas(m, key) THEN Null
  ELSE IF IsExpired(MapGet(m, key), t) THEN Null
  ELSE MapGet(m, key).value

Get(key) ==
  /\ totalRequests < MaxRequests
  /\ totalRequests' = totalRequests + 1
  /\ IF ~MapHas(cache, key)
       THEN /\ totalMisses' = totalMisses + 1
            /\ cacheAnalytics' = updateAnalytics(cacheAnalytics, "miss", "unknown", 0, now)
            /\ UNCHANGED <<cache, totalHits, removedStatus>>
       ELSE LET entry == MapGet(cache, key)
            IN IF IsExpired(entry, now)
                 THEN /\ cache' = MapDelete(cache, key)
                      /\ removedStatus' = [removedStatus EXCEPT ![key] = "expired"]
                      /\ totalMisses' = totalMisses + 1
                      /\ cacheAnalytics' = updateAnalytics(cacheAnalytics, "expired", entry.type, 0, now)
                      /\ UNCHANGED totalHits
                 ELSE /\ cache' = MapSet(cache, key,
                                         [entry EXCEPT !.hitCount = @ + 1,
                                                       !.lastAccessed = now])
                      /\ totalHits' = totalHits + 1
                      /\ cacheAnalytics' = updateAnalytics(cacheAnalytics, "hit", entry.type, entry.size, now)
                      /\ UNCHANGED <<totalMisses, removedStatus>>
  /\ UNCHANGED <<backgroundProcesses, cacheConfig, pending, now>>

\* What delete(key) returns.
DeleteReturn(m, key) == MapHas(m, key)

Delete(key) ==
  /\ IF ~MapHas(cache, key)
       THEN UNCHANGED <<cache, cacheAnalytics, removedStatus>>
       ELSE LET entry == MapGet(cache, key)
            IN /\ cache' = MapDelete(cache, key)
               /\ removedStatus' = [removedStatus EXCEPT ![key] = entry.status]
               /\ cacheAnalytics' = updateAnalytics(cacheAnalytics, "delete", entry.type, entry.size, now)
  /\ UNCHANGED <<backgroundProcesses, totalRequests, totalHits, totalMisses, cacheConfig, pending, now>>

\* What deleteCacheEntry(key) answers: it throws NotFoundException when
\* delete returned false.
DeleteCacheEntryReturn(m, key) ==
  IF DeleteReturn(m, key) THEN "success" ELSE "NotFoundException"

\* What exists(key) returns at time t.
ExistsReturn(m, key, t) ==
  IF ~MapHas(m, key) THEN FALSE
  ELSE ~IsExpired(MapGet(m, key), t)

\* An exists that goes through get.
ExistsThroughGet(key) == Get(key)

Exists(key) ==
  /\ IF MapHas(cache, key) /\ IsExpired(MapGet(cache, key), now)
       THEN /\ cache' = MapDelete(cache, key)
            /\ removedStatus' = [removedStatus EXCEPT ![key] = MapGet(cache, key).status]
       ELSE UNCHANGED <<cache, removedStatus>>
  /\ UNCHANGED <<backgroundProcesses, cacheAnalytics, totalRequests, totalHits, totalMisses,
                 cacheConfig, pending, now>>

\* A sweep that stops after the first entry it removes.
cleanExpiredEntriesFirstOnly(st, t) ==
  LET stale == SelectSeq(st.cache, LAMBDA e : IsExpired(e, t))
      first == IF stale = <<>> THEN <<>> ELSE <<Head(stale)>>
      gone == SeqKeys(first)
  IN [ cache |-> SelectSeq(st.cache, LAMBDA e : e.key \notin gone),
       an |-> RecordAll(st.an, "expired", first, t),
       removed |-> [k \in DOMAIN st.removed |->
                      IF k \in gone THEN "expired" ELSE st.removed[k]] ]

\* cleanExpiredEntries at time t, on st = [cache, an, removed].
\* A sweep that removes nothing.
cleanExpiredEntriesNone(st, t) == st

cleanExpiredEntries(st, t) ==
  LET stale == SelectSeq(st.cache, LAMBDA e : IsExpired(e, t))
      gone == SeqKeys(stale)
  IN [ cache |-> SelectSeq(st.cache, LAMBDA e : ~IsExpired(e, t)),
       an |-> RecordAll(st.an, "expired", stale, t),
       removed |-> [k \in DOMAIN st.removed |->
                      IF k \in gone THEN "expired" ELSE st.removed[k]] ]

\* The expiry sweep, a timer callback: it runs while its interval is set,
\* and only between tasks, when no set is suspended at its await.
CleanExpiredEntries ==
  /\ backgroundProcesses = "started"
  /\ pending = <<>>
  /\ LET st == cleanExpiredEntries([cache |-> cache, an |-> cacheAnalytics,
                                    removed |-> removedStatus], now)
     IN /\ cache' = st.cache
        /\ cacheAnalytics' = st.an
        /\ removedStatus' = st.removed
  /\ UNCHANGED <<backgroundProcesses, totalRequests, totalHits, totalMisses, cacheConfig, pending, now>>

UpdateCacheConfig(cacheConfigDto) ==
  /\ LET cfg == ObjectAssign(cacheConfig, cacheConfigDto)
         st == enforceMemoryLimits([cache |-> cache, an |-> cacheAnalytics,
                                    removed |-> removedStatus],
                                   Undefined, 0, cfg, now)
     IN /\ cacheConfig' = cfg
        /\ cache' = st.cache
        /\ cacheAnalytics' = st.an
        /\ removedStatus' = st.removed
  /\ UNCHANGED <<backgroundProcesses, totalRequests, totalHits, totalMisses, pending, now>>

\* A loop that steps over the entry following each one it deletes.
RECURSIVE ClearLoopSkipping(_, _, _, _)
ClearLoopSkipping(m, todo, cacheType, clearedCount) ==
  IF todo = <<>> THEN [cache |-> m, clearedCount |-> clearedCount]
  ELSE IF Head(todo).type = cacheType
    THEN ClearLoopSkipping(MapDelete(m, Head(todo).key),
                           IF Len(todo) > 1 THEN Tail(Tail(todo)) ELSE <<>>,
                           cacheType, clearedCount + 1)
    ELSE ClearLoopSkipping(m, Tail(todo), cacheType, clearedCount)

\* The loop of clearCache over the entries of the map: `todo` are the entries
\* still to visit, `m` the map as deleted from so far.
RECURSIVE ClearLoop(_, _, _, _)
ClearLoop(m, todo, cacheType, clearedCount) ==
  IF todo = <<>> THEN [cache |-> m, clearedCount |-> clearedCount]
  ELSE IF Head(todo).type = cacheType
    THEN ClearLoop(MapDelete(m, Head(todo).key), Tail(todo), cacheType, clearedCount + 1)
    ELSE ClearLoop(m, Tail(todo), cacheType, clearedCount)

\* clearCache(cacheType): the map it leaves and the clearedCount it returns.
clearCache(m, cacheType) ==
  IF cacheType # Undefined
    THEN ClearLoop(m, m, cacheType, 0)
    ELSE [cache |-> <<>>, clearedCount |-> Len(m)]

\* clearCache changes neither the status of the entries it removes nor the
\* analytics.
ClearCache(cacheType) ==
  /\ cache' = clearCache(cache, cacheType).cache
  /\ removedStatus' = [k \in DOMAIN removedStatus |->
                         IF MapHas(cache, k) /\ ~MapHas(cache', k)
                           THEN MapGet(cache, k).status ELSE removedStatus[k]]
  /\ UNCHANGED <<backgroundProcesses, cacheAnalytics, totalRequests, totalHits, totalMisses,
                 cacheConfig, pending, now>>

\* A quotient of two counters, kept as an exact fraction.
Fraction(num, den) == [num |-> num, den |-> den]

\* 1 - f
OneMinus(f) == Fraction(f.den - f.num, f.den)

\* A rate that divides the hits by the misses.
HitRateOverMisses(requests, hits) ==
  IF requests - hits > 0 THEN Fraction(hits, requests - hits) ELSE Fraction(0, 1)

\* totalRequests > 0 ? totalHits / totalRequests : 0
HitRate(requests, hits) ==
  IF requests > 0 THEN Fraction(hits, requests) ELSE Fraction(0, 1)

\* The rates and counters getAnalyticsData reports.
getAnalyticsData ==
  LET hitRate == HitRate(totalRequests, totalHits)
  IN [hitRate |-> hitRate, missRate |-> OneMinus(hitRate),
      totalRequests |-> totalRequests, totalHits |-> totalHits,
      totalMisses |-> totalMisses]

\* The rates and sizes getCacheStats reports.
getCacheStats ==
  LET hitRate == HitRate(totalRequests, totalHits)
  IN [totalEntries |-> Len(cache), totalSize |-> calculateTotalSize(cache),
      hitRate |-> hitRate, missRate |-> OneMinus(hitRate)]

\* The class-validator rules of CacheConfigDto, applied by the controller's
\* ValidationPipe before the service is called.  evictionPolicy is only
\* required to be a string, and typeConfigs is not looked into.
ValidCacheConfigDto(dto) ==
  /\ dto.defaultTtl \in 60..86400
  /\ dto.maxSize \in 1048576..1073741824
  /\ dto.evictionPolicy \in STRING

\* POST cache/config: a body that fails validation is answered with 400 and
\* the service is not called.
PostConfig(cacheConfigDto) ==
  IF ValidCacheConfigDto(cacheConfigDto)
    THEN UpdateCacheConfig(cacheConfigDto)
    ELSE UNCHANGED vars

\* The selectors given to refreshCache; Undefined, <<>> and FALSE are the
\* fields left out.
RefreshDtos ==
  { [cacheType |-> Undefined, keys |-> <<>>, refreshAll |-> TRUE],
    [cacheType |-> "user", keys |-> <<>>, refreshAll |-> FALSE],
    [cacheType |-> Undefined, keys |-> <<"b", "c">>, refreshAll |-> FALSE],
    [cacheType |-> Undefined, keys |-> <<>>, refreshAll |-> FALSE] }

\* The entries a selector picks.
Selected(dto, entry) ==
  IF dto.refreshAll THEN TRUE
  ELSE IF dto.cacheType # Undefined THEN entry.type = dto.cacheType
  ELSE \E i \in 1..Len(dto.keys) : dto.keys[i] = entry.key

\* What refreshCache answers.
RefreshCacheReturn(dto) ==
  IF dto.refreshAll \/ dto.cacheType # Undefined \/ Len(dto.keys) > 0
    THEN "success"
    ELSE "BadRequestException"

\* The map refreshCache leaves at time t.
refreshCache(m, dto, t) ==
  [i \in 1..Len(m) |->
     IF RefreshCacheReturn(dto) = "success" /\ Selected(dto, m[i])
       THEN [m[i] EXCEPT !.lastAccessed = t,
                         !.hitCount = 0,
                         !.expiresAt = t + m[i].ttl * MsPerSecond]
       ELSE m[i]]

RefreshCache(refreshCacheDto) ==
  /\ cache' = refreshCache(cache, refreshCacheDto, now)
  /\ UNCHANGED <<backgroundProcesses, cacheAnalytics, totalRequests, totalHits, totalMisses,
                 cacheConfig, pending, now, removedStatus>>

\* The periods asked of getCacheAnalytics; Undefined is the omitted one.
Periods == {"1h", "24h", "7d", "30d", "2h", "", Undefined}

getStartDate(period, t) ==
  CASE period = "1h" -> t - MsPerHour
    [] period = "24h" -> t - 24 * MsPerHour
    [] period = "7d" -> t - 7 * 24 * MsPerHour
    [] period = "30d" -> t - 30 * 24 * MsPerHour
    [] OTHER -> t - 24 * MsPerHour

\* What getCacheAnalytics(period) answers at time t: the code has no path
\* that throws.
getCacheAnalytics(period, t) ==
  LET analyticsPeriod == IF period \in {Undefined, ""} THEN "24h" ELSE period
  IN [error |-> "none", period |-> analyticsPeriod,
      startDate |-> getStartDate(analyticsPeriod, t), endDate |-> t,
      hitRate |-> getAnalyticsData.hitRate]

\* The integer part of maxSize * percent / 100, computed in two parts to stay
\* within 32-bit integers.  Sizes are integers, so a size is above the exact
\* product exactly when it is above its integer part.
PercentOf(maxSize, percent) ==
  percent * (maxSize \div 100) + (percent * (maxSize % 100)) \div 100

\* A forced eviction that aims at 90% of maxSize.
forceEvictionTo90(st, cfg, t) ==
  LET currentSize == calculateTotalSize(st.cache)
      targetSize == PercentOf(cfg.maxSize, 90)
  IN IF currentSize > targetSize
       THEN evictEntries(st, "all", currentSize - targetSize, cfg.evictionPolicy, t)
       ELSE st

\* forceEviction: targetSize is maxSize * 0.7.
forceEviction(st, cfg, t) ==
  LET currentSize == calculateTotalSize(st.cache)
      targetSize == PercentOf(cfg.maxSize, 70)
  IN IF currentSize > targetSize
       THEN evictEntries(st, "all", currentSize - targetSize, cfg.evictionPolicy, t)
       ELSE st

\* usagePercentage > percent, for usagePercentage = currentMemory / maxMemory * 100
UsageAbove(m, cfg, percent) == calculateTotalSize(m) > PercentOf(cfg.maxSize, percent)

monitorMemoryUsage(st, cfg, t) ==
  IF UsageAbove(st.cache, cfg, 90) THEN forceEviction(st, cfg, t)
  ELSE IF UsageAbove(st.cache, cfg, 80) THEN enforceMemoryLimits(st, Undefined, 0, cfg, t)
  ELSE st

\* The memory monitor, a timer callback like the expiry sweep.
MonitorMemoryUsage ==
  /\ backgroundProcesses = "started"
  /\ pending = <<>>
  /\ LET st == monitorMemoryUsage([cache |-> cache, an |-> cacheAnalytics,
                                   removed |-> removedStatus], cacheConfig, now)
     IN /\ cache' = st.cache
        /\ cacheAnalytics' = st.an
        /\ removedStatus' = st.removed
  /\ UNCHANGED <<backgroundProcesses, totalRequests, totalHits, totalMisses, cacheConfig, pending, now>>

\* What getCacheEntry(key) answers at time t.
GetCacheEntryReturn(m, key, t) ==
  IF ~MapHas(m, key) THEN "NotFoundException"
  ELSE IF IsExpired(MapGet(m, key), t) THEN "NotFoundException"
  ELSE "entry"

\* An administrative lookup that counts as a hit.
GetCacheEntryCounting(key) ==
  /\ MapHas(cache, key)
  /\ ~IsExpired(MapGet(cache, key), now)
  /\ cache' = MapSet(cache, key, [MapGet(cache, key) EXCEPT !.hitCount = @ + 1,
                                                           !.lastAccessed = now])
  /\ totalHits' = totalHits + 1
  /\ UNCHANGED <<backgroundProcesses, cacheAnalytics, totalRequests, totalMisses, cacheConfig,
                 pending, now, removedStatus>>

\* getCacheEntry: an expired entry is deleted with its status unchanged and
\* no event; a live one has its hitCount and lastAccessed updated.
GetCacheEntry(key) ==
  /\ IF ~MapHas(cache, key)
       THEN UNCHANGED <<cache, removedStatus>>
       ELSE LET entry == MapGet(cache, key)
            IN IF IsExpired(entry, now)
                 THEN /\ cache' = MapDelete(cache, key)
                      /\ removedStatus' = [removedStatus EXCEPT ![key] = entry.status]
                 ELSE /\ cache' = MapSet(cache, key,
                                         [entry EXCEPT !.hitCount = @ + 1,
                                                       !.lastAccessed = now])
                      /\ UNCHANGED removedStatus
  /\ UNCHANGED <<backgroundProcesses, cacheAnalytics, totalRequests, totalHits, totalMisses,
                 cacheConfig, pending, now>>

\* onModuleDestroy: stopBackgroundProcesses clears the three intervals, and
\* nothing starts them again.
OnModuleDestroy ==
  /\ backgroundProcesses' = "stopped"
  /\ UNCHANGED <<cache, cacheAnalytics, totalRequests, totalHits, totalMisses,
                 cacheConfig, pending, now, removedStatus>>

\* The clock advances by a second.  The part of set after its await runs
\* in the same task as the part before it, so at this resolution no time
\* passes while a set is suspended.
Tick ==
  /\ now < MaxTicks * MsPerSecond
  /\ pending = <<>>
  /\ now' = now + MsPerSecond
  /\ UNCHANGED <<backgroundProcesses, cache, cacheAnalytics, totalRequests, totalHits, totalMisses,
                 cacheConfig, pending, removedStatus>>

\* set calls made so far: those recorded and those still suspended.
SetsMade == Recorded(cacheAnalytics, "sets") + Len(pending)

\* Every call of the service but the configuration update.
Calls ==
  \/ \E in \in SetInputs :
       /\ SetsMade < MaxSets
       /\ Len(pending) < MaxPending
       /\ Set(in.key, in.value, in.ttl, in.type)
  \/ SetResume
  \/ \E key \in Keys : Get(key)
  \/ \E key \in Keys : Delete(key)
  \/ \E key \in Keys : Exists(key)
  \/ CleanExpiredEntries
  \/ Tick

Next == Calls \/ UpdateCacheConfig(ConfigDto("lru"))

Spec == Init /\ [][Next]_vars

\* The same service configured with the lfu policy.
NextLfu == Calls \/ UpdateCacheConfig(ConfigDto("lfu"))

SpecLfu == Init /\ [][NextLfu]_vars

\* A caller that configures the user category with maxSize 100 and lru and
\* then sets the keys of Script, one call after the other, reading none.
NextScenario ==
  \/ /\ cacheConfig = DefaultConfig
     /\ UpdateCacheConfig(ConfigDto("lru"))
  \/ \E i \in 1..Len(Script) :
       /\ cacheConfig # DefaultConfig
       /\ pending = <<>>
       /\ SetsMade = i - 1
       /\ \E value \in {P40, Q40} : Set(Script[i], value, 0, "user")
  \/ SetResume
  \/ Tick

SpecScenario == Init /\ [][NextScenario]_vars

\* A caller that sets ExpiryKey once with a ttl of 1 second at time 0 and
\* reads it once after at least 2 seconds, while the expiry sweep runs at
\* any time or not at all.
NextExpiry ==
  \/ /\ cacheConfig = DefaultConfig
     /\ UpdateCacheConfig(ConfigDto("lru"))
  \/ /\ SetsMade = 0
     /\ now = 0
     /\ \E value \in {P40, Q40, P70, P120}, type \in {"user", "system"} :
          Set(ExpiryKey, value, 1, type)
  \/ SetResume
  \/ Tick
  \/ CleanExpiredEntries
  \/ /\ Recorded(cacheAnalytics, "sets") = 1
     /\ now >= 2 * MsPerSecond
     /\ totalRequests = 0
     /\ Get(ExpiryKey)

SpecExpiry == Init /\ [][NextExpiry]_vars

\* The cache types of the administrative calls; Undefined is the omitted one.
CacheTypes == {"user", "system"}

\* The service with its administrative operations.
NextAdmin ==
  \/ \E in \in SetInputs :
       /\ SetsMade < MaxSets
       /\ Len(pending) < MaxPending
       /\ Set(in.key, in.value, in.ttl, in.type)
  \/ SetResume
  \/ \E key \in Keys : Get(key)
  \/ Tick
  \/ \E cacheType \in CacheTypes \cup {Undefined} : ClearCache(cacheType)
  \/ \E refreshCacheDto \in RefreshDtos : RefreshCache(refreshCacheDto)

SpecAdmin == Init /\ [][NextAdmin]_vars

\* The configuration given to the service with its memory monitor.
MonitorConfigDto ==
  [defaultTtl |-> 60, maxSize |-> 140, evictionPolicy |-> "lru",
   typeConfigs |-> SmallTypeConfigs]

\* The service with its memory monitor.
NextMonitor ==
  \/ \E in \in SetInputs :
       /\ SetsMade < MaxSets
       /\ Len(pending) < MaxPending
       /\ Set(in.key, in.value, in.ttl, in.type)
  \/ SetResume
  \/ \E key \in Keys : Get(key)
  \/ Tick
  \/ UpdateCacheConfig(MonitorConfigDto)
  \/ MonitorMemoryUsage

SpecMonitor == Init /\ [][NextMonitor]_vars

\* The set calls of the specification of all operations.
ShortLivedInputs == {in \in SetInputs : in.ttl = 1}

\* Every operation of the service: the core calls, the administrative
\* calls and the timers.
NextAll ==
  \/ \E in \in ShortLivedInputs :
       /\ SetsMade < MaxSets - 1
       /\ Len(pending) < MaxPending
       /\ Set(in.key, in.value, in.ttl, in.type)
  \/ SetResume
  \/ \E key \in Keys : Get(key)
  \/ \E key \in Keys : Delete(key)
  \/ \E key \in Keys : Exists(key)
  \/ \E key \in Keys :
       /\ MapHas(cache, key) => MapGet(cache, key).hitCount < MaxRequests
       /\ GetCacheEntry(key)
  \/ \E cacheType \in CacheTypes \cup {Undefined} : ClearCache(cacheType)
  \/ \E refreshCacheDto \in RefreshDtos : RefreshCache(refreshCacheDto)
  \/ UpdateCacheConfig(MonitorConfigDto)
  \/ CleanExpiredEntries
  \/ MonitorMemoryUsage
  \/ Tick

SpecAll == Init /\ [][NextAll]_vars

\* The service with its timers, from onModuleInit to onModuleDestroy.
NextJanitor ==
  \/ \E in \in ShortLivedInputs :
       /\ SetsMade < MaxSets - 1
       /\ Len(pending) < MaxPending
       /\ Set(in.key, in.value, in.ttl, in.type)
  \/ SetResume
  \/ \E key \in Keys : Get(key)
  \/ \E refreshCacheDto \in RefreshDtos : RefreshCache(refreshCacheDto)
  \/ CleanExpiredEntries
  \/ OnModuleDestroy
  \/ Tick

\* setInterval keeps scheduling the sweep until the interval is cleared, and
\* the continuation of an awaited call is a microtask that always runs.
SpecJanitor ==
  Init /\ [][NextJanitor]_vars /\ WF_vars(CleanExpiredEntries) /\ WF_vars(SetResume)

\* Bodies posted to cache/config: a policy that is none of lru, lfu and
\* fifo, a defaultTtl below the minimum, and a well-formed body.
ConfigDtos ==
  { [defaultTtl |-> 60, maxSize |-> 1048576, evictionPolicy |-> "random",
     typeConfigs |-> SmallTypeConfigs],
    [defaultTtl |-> 5, maxSize |-> 1048576, evictionPolicy |-> "fifo",
     typeConfigs |-> SmallTypeConfigs],
    [defaultTtl |-> 120, maxSize |-> 1048576, evictionPolicy |-> "fifo",
     typeConfigs |-> SmallTypeConfigs] }

\* The service configured through its controller.
NextController ==
  \/ \E in \in SetInputs :
       /\ SetsMade < MaxSets
       /\ Len(pending) < MaxPending
       /\ Set(in.key, in.value, in.ttl, in.type)
  \/ SetResume
  \/ \E cacheConfigDto \in ConfigDtos : PostConfig(cacheConfigDto)

SpecController == Init /\ [][NextController]_vars

(***************************************************************************)
(* Properties.                                                             *)
(***************************************************************************)
\* The instants of the model's clock.
Times == {i * MsPerSecond : i \in 0..MaxTicks}

Configured(type) == type \in DOMAIN cacheConfig.typeConfigs

QuotaOf(type) == cacheConfig.typeConfigs[type].maxSize

\* The step is a call of set: only a call of set suspends one more set.
IsSetCall == Len(pending') = Len(pending) + 1

\* The keys a step takes out of the map.
Dropped(key) == MapHas(cache, key) /\ ~MapHas(cache', key)

\* The set about to resume was admitted under the limit now in force.
SameLimit == Head(pending).limit = LimitOf(cacheConfig, Head(pending).type)

\* C1: when a set returns and no other set is in flight, the entries of the
\* set's category, if it has a configured quota, total at most its maxSize.
C1_CategoryQuotaAfterSet ==
  [][(SetResume /\ pending' = <<>> /\ SameLimit) =>
       LET type == Head(pending).type
       IN Configured(type) =>
            calculateTotalSizeByType(cache', type) <= QuotaOf(type)]_vars

\* C2: when a set returns, no other set is in flight and every configured
\* category is within its own quota, the entries of all categories together
\* total at most the global maxSize.
C2_GlobalQuotaAfterSet ==
  [][SetResume /\ pending' = <<>> /\ SameLimit
       /\ (\A type \in DOMAIN cacheConfig.typeConfigs :
             calculateTotalSizeByType(cache', type) <= QuotaOf(type))
       => calculateTotalSize(cache') <= cacheConfig.maxSize]_vars

\* C3: a set whose value alone exceeds its category's maxSize leaves the
\* store unchanged, both when it is called and when it resumes.
C3_TooLargeLeavesStore ==
  [][/\ (SetResume /\ Head(pending).size > Head(pending).limit) => cache' = cache
     /\ \A in \in SetInputs :
          (Set(in.key, in.value, in.ttl, in.type)
             /\ calculateSize(in.value) > LimitOf(cacheConfig, in.type))
            => cache' = cache]_vars

\* C4: at the return of set(k, v, ttl), and at every later instant before
\* the ttl has elapsed, get(k) returns v.
C4_SetThenGet ==
  [][SetResume =>
       LET p == Head(pending)
       IN \A t \in Times :
            (now' <= t /\ t < p.expiresAt) => GetReturn(cache', p.key, t) = p.value]_vars

\* C4 witness: a key read with a hit at the instant it was set, by a set
\* that evicted another entry.
C4_Witness ==
  \E k \in Keys :
    /\ MapHas(cache, k)
    /\ MapGet(cache, k).hitCount = 1
    /\ MapGet(cache, k).lastAccessed = MapGet(cache, k).createdAt
    /\ \E j \in Keys \ {k} : removedStatus[j] = "evicted"

\* The entry under key, if any, has its expiresAt behind the clock.
Stale(key) == MapHas(cache, key) /\ MapGet(cache, key).expiresAt < now

\* C5: a get of a key whose expiry has passed returns absent and leaves the
\* key out of the store, where exists is false; the sweep removes every such
\* key, after which get returns absent and exists is false.
C5_ExpiredIsAbsent ==
  [][/\ \A k \in Keys :
          (Get(k) /\ Stale(k)) =>
            /\ GetReturn(cache, k, now) = Null
            /\ ~MapHas(cache', k)
            /\ ~ExistsReturn(cache', k, now')
     /\ CleanExpiredEntries =>
          \A k \in Keys :
            Stale(k) =>
              /\ ~MapHas(cache', k)
              /\ GetReturn(cache', k, now') = Null
              /\ ~ExistsReturn(cache', k, now')]_vars

\* C5 witness: a get found its key expired: the one miss counted was not
\* recorded as a miss event, and the entry left the map as expired.
C5_Witness ==
  \E k \in Keys :
    /\ removedStatus[k] = "expired"
    /\ ~MapHas(cache, k)
    /\ totalMisses = 1
    /\ Recorded(cacheAnalytics, "misses") = 0
    /\ Recorded(cacheAnalytics, "expired") = 1

\* C6: an entry admitted against a limit it fits under leaves its category
\* within that limit when it is inserted.
C6_AdmittedFits ==
  [][SetResume =>
       LET p == Head(pending)
       IN p.size <= p.limit =>
            calculateTotalSizeByType(cache', p.type) <= p.limit]_vars

\* C7: whenever get returns a value, the entry it comes from is in the map,
\* its expiresAt has not passed and its status is active.
C7_GetNeverStale ==
  \A k \in Keys :
    GetReturn(cache, k, now) # Null =>
      /\ MapHas(cache, k)
      /\ ~(MapGet(cache, k).expiresAt < now)
      /\ MapGet(cache, k).status = "active"

\* C7 witness: a get returned a value at the very instant of its entry's
\* expiresAt, after the sweep had removed another entry as expired.
C7_Witness ==
  \E k \in Keys :
    /\ MapHas(cache, k)
    /\ MapGet(cache, k).hitCount > 0
    /\ MapGet(cache, k).lastAccessed = now
    /\ MapGet(cache, k).expiresAt = now
    /\ \E j \in Keys \ {k} : removedStatus[j] = "expired"

\* C8: under lru, a call of set into a type evicts an entry of that type
\* only if it evicts every entry of the type with an older lastAccessed.
C8_LruOrder ==
  [][(IsSetCall /\ cacheConfig.evictionPolicy = "lru") =>
       \A i, j \in 1..Len(cache) :
         (/\ cache[i].type = cache[j].type
          /\ cache[j].lastAccessed < cache[i].lastAccessed
          /\ Dropped(cache[i].key))
           => Dropped(cache[j].key)]_vars

\* C8 witness: under lru a set call evicted b, the second entry of the map,
\* and kept a, the first, which had been read since.
C8_Witness ==
  /\ cacheConfig.evictionPolicy = "lru"
  /\ Len(pending) = 1
  /\ removedStatus["b"] = "evicted"
  /\ MapHas(cache, "a")
  /\ MapGet(cache, "a").hitCount = 1
  /\ MapGet(cache, "a").type = Head(pending).type

\* C9: under lfu, a call of set evicts an entry only if it evicts every
\* entry of the type with a lower hitCount, and every entry with the same
\* hitCount and an older lastAccessed.
C9_LfuOrder ==
  [][(IsSetCall /\ cacheConfig.evictionPolicy = "lfu") =>
       \A i, j \in 1..Len(cache) :
         (/\ cache[i].type = cache[j].type
          /\ \/ cache[j].hitCount < cache[i].hitCount
             \/ /\ cache[j].hitCount = cache[i].hitCount
                /\ cache[j].lastAccessed < cache[i].lastAccessed
          /\ Dropped(cache[i].key))
           => Dropped(cache[j].key)]_vars

\* The scenario's sets have all returned.
ScenarioDone == Recorded(cacheAnalytics, "sets") = Len(Script) /\ pending = <<>>

\* C10 as stated: after a, b, c and d have been set, a is evicted and
\* exactly b, c and d are in the store.
C10_ScenarioAsStated ==
  ScenarioDone =>
    /\ MapKeys(cache) = {"b", "c", "d"}
    /\ removedStatus["a"] = "evicted"

\* C10 amended: the set of c already evicts a, and the set of d evicts b:
\* after the four sets a and b are evicted and exactly c and d are in the
\* store.
C10_ScenarioAmended ==
  /\ (Recorded(cacheAnalytics, "sets") = 3 /\ pending = <<>>) =>
       /\ MapKeys(cache) = {"b", "c"}
       /\ removedStatus["a"] = "evicted"
  /\ ScenarioDone =>
       /\ MapKeys(cache) = {"c", "d"}
       /\ calculateTotalSizeByType(cache, "user") = 80
       /\ removedStatus["a"] = "evicted"
       /\ removedStatus["b"] = "evicted"

\* C10 witness: the four sets of the scenario have returned.
C10_Witness == ScenarioDone /\ cacheConfig.typeConfigs["user"].maxSize = 100

\* C11: a configuration update that leaves a category with a maxSize below
\* the total the category holds evicts from it before it returns: on return
\* the category's total is at most its new maxSize.
C11_UpdateEnforcesLoweredQuota ==
  [][\A policy \in {"lru", "lfu"} :
       UpdateCacheConfig(ConfigDto(policy)) =>
         \A type \in DOMAIN ConfigDto(policy).typeConfigs :
           (/\ ConfigDto(policy).typeConfigs[type].maxSize < LimitOf(cacheConfig, type)
            /\ ConfigDto(policy).typeConfigs[type].maxSize
                 < calculateTotalSizeByType(cache, type))
             => calculateTotalSizeByType(cache', type)
                  <= cacheConfig'.typeConfigs[type].maxSize]_vars

\* C12: in the expiry scenario the get of ExpiryKey, 2 seconds or more after
\* it was set with a ttl of 1 second, returns absent, and after it exactly one
\* expired event has been recorded and the key is out of the store, whether
\* the sweep ran in between or not.
C12_ExpiryScenario ==
  [][Get(ExpiryKey) =>
       /\ GetReturn(cache, ExpiryKey, now) = Null
       /\ ~MapHas(cache', ExpiryKey)
       /\ removedStatus'[ExpiryKey] = "expired"
       /\ Recorded(cacheAnalytics', "expired") = 1]_vars

\* C12 witness: the get came after the sweep had removed the entry: it was
\* recorded as a miss and the one expired event is the sweep's.
C12_Witness ==
  /\ totalRequests = 1
  /\ removedStatus[ExpiryKey] = "expired"
  /\ Recorded(cacheAnalytics, "misses") = 1
  /\ Recorded(cacheAnalytics, "expired") = 1

\* The get found the expired entry still in the map and removed it itself.
C12_WitnessLazy ==
  /\ totalRequests = 1
  /\ removedStatus[ExpiryKey] = "expired"
  /\ Recorded(cacheAnalytics, "misses") = 0
  /\ Recorded(cacheAnalytics, "expired") = 1

\* C13: clearCache(c) with a category c removes every entry of category c
\* and no other: the entries of the other categories stay in the map, in
\* their order, with every field unchanged, and the clearedCount returned is
\* the number of entries removed.
C13_ClearCacheByType ==
  [][\A c \in CacheTypes :
       ClearCache(c) =>
         /\ cache' = SelectSeq(cache, LAMBDA e : e.type # c)
         /\ clearCache(cache, c).clearedCount = Len(cache) - Len(cache')]_vars

\* C13 witness: a clear removed a while b, of another category and read
\* once, is still in the map.
C13_Witness ==
  /\ removedStatus["a"] = "active"
  /\ ~MapHas(cache, "a")
  /\ MapHas(cache, "b")
  /\ MapGet(cache, "b").type = "system"
  /\ MapGet(cache, "b").hitCount = 1

\* f = num / den, for den > 0
IsQuotient(f, num, den) == f.den > 0 /\ f.num * den = num * f.den

\* f + g = 1
SumToOne(f, g) == f.den > 0 /\ g.den > 0 /\ f.num * g.den + g.num * f.den = f.den * g.den

\* C14: once a get has been counted, the hitRate reported by
\* getAnalyticsData and by getCacheStats is hits / (hits + misses) and
\* hitRate + missRate = 1; before any get the reported hitRate is 0.
C14_HitRate ==
  \A r \in {[hitRate |-> getAnalyticsData.hitRate, missRate |-> getAnalyticsData.missRate],
            [hitRate |-> getCacheStats.hitRate, missRate |-> getCacheStats.missRate]} :
    /\ totalHits + totalMisses > 0 =>
         /\ IsQuotient(r.hitRate, totalHits, totalHits + totalMisses)
         /\ SumToOne(r.hitRate, r.missRate)
    /\ totalHits + totalMisses = 0 => r.hitRate.num = 0

\* C14 witness: one hit and one miss have been counted, the miss on an
\* expired entry.
C14_Witness ==
  /\ totalHits = 1
  /\ totalMisses = 1
  /\ Recorded(cacheAnalytics, "expired") = 1
  /\ getAnalyticsData.hitRate = Fraction(1, 2)

\* The values the configuration is documented to allow.
AllowedConfig(dto) ==
  /\ dto.defaultTtl \in 60..86400
  /\ dto.maxSize \in 1048576..1073741824
  /\ dto.evictionPolicy \in {"lru", "lfu", "fifo"}

\* C15: a configuration update carrying a value outside the allowed ranges
\* leaves the live configuration as it was.
C15_InvalidConfigRejected ==
  [][\A dto \in ConfigDtos :
       (PostConfig(dto) /\ ~AllowedConfig(dto)) => cacheConfig' = cacheConfig]_vars

\* C16: a delete of a key that is absent, or whose entry is in the map with
\* its expiresAt behind the clock, returns false, and deleteCacheEntry
\* answers NotFound.
C16_DeleteNotFound ==
  [][\A k \in Keys :
       (Delete(k) /\ (~MapHas(cache, k) \/ Stale(k))) =>
         /\ DeleteReturn(cache, k) = FALSE
         /\ DeleteCacheEntryReturn(cache, k) = "NotFoundException"]_vars

\* The periods the analytics accept; an omitted period stands for 24h.
AcceptedPeriods == {"1h", "24h", "7d", "30d", "", Undefined}

\* C17: an analytics period outside 1h, 24h, 7d and 30d is answered with an
\* error, and so is a refresh selector with no key list, no category and no
\* refreshAll, which leaves every entry as it was.
C17_InvalidQueryRejected ==
  /\ \A period \in Periods \ AcceptedPeriods :
       getCacheAnalytics(period, now).error = "BadRequestException"
  /\ \A dto \in RefreshDtos :
       (~dto.refreshAll /\ dto.cacheType = Undefined /\ dto.keys = <<>>)
         => /\ RefreshCacheReturn(dto) = "BadRequestException"
            /\ refreshCache(cache, dto, now) = cache

\* The map a run of the memory monitor would leave now.
AfterMonitor ==
  monitorMemoryUsage([cache |-> cache, an |-> cacheAnalytics,
                      removed |-> removedStatus], cacheConfig, now).cache

\* C18: a run of the memory monitor that finds the total above 90% of the
\* global maxSize leaves it at most 70% of maxSize, and evicts an entry only
\* if it evicts every entry, of any category, that the configured policy
\* orders before it.
C18_ForcedEvictionTo70 ==
  (pending = <<>> /\ UsageAbove(cache, cacheConfig, 90)) =>
    /\ calculateTotalSize(AfterMonitor) * 10 <= cacheConfig.maxSize * 7
    /\ \A i, j \in 1..Len(cache) :
         (/\ SortKey(cache[j], cacheConfig.evictionPolicy)
               < SortKey(cache[i], cacheConfig.evictionPolicy)
          /\ ~MapHas(AfterMonitor, cache[i].key))
           => ~MapHas(AfterMonitor, cache[j].key)

\* C18 witness: the monitor is due with the total above 90% of maxSize and
\* two entries of different categories in the map; its run evicts the second
\* inserted, whose lastAccessed is older, and keeps the first.
C18_Witness ==
  /\ pending = <<>>
  /\ UsageAbove(cache, cacheConfig, 90)
  /\ Len(cache) = 2
  /\ cache[1].type # cache[2].type
  /\ cache[2].lastAccessed < cache[1].lastAccessed
  /\ Len(AfterMonitor) = 1
  /\ AfterMonitor[1].key = cache[1].key

\* C19: a run of the memory monitor that finds the total above 80% and at
\* most 90% of the global maxSize leaves every configured category that was
\* over its maxSize within it.
C19_MonitorEnforcesQuotas ==
  (pending = <<>> /\ UsageAbove(cache, cacheConfig, 80)
     /\ ~UsageAbove(cache, cacheConfig, 90)) =>
    \A type \in DOMAIN cacheConfig.typeConfigs :
      calculateTotalSizeByType(cache, type) > QuotaOf(type)
        => calculateTotalSizeByType(AfterMonitor, type) <= QuotaOf(type)

\* What a run of the expiry sweep would leave now.
AfterSweep ==
  cleanExpiredEntries([cache |-> cache, an |-> cacheAnalytics,
                       removed |-> removedStatus], now)

\* C21: when an expiry sweep ends, no entry with its expiresAt before the
\* sweep's start is in the map, every entry it removed has status expired,
\* one expired event was recorded per removal, and the entries that were not
\* expired are in the map as they were, in their order.
C21_SweepRemovesExactlyStale ==
  /\ \A i \in 1..Len(AfterSweep.cache) : ~(AfterSweep.cache[i].expiresAt < now)
  /\ \A k \in MapKeys(cache) \ MapKeys(AfterSweep.cache) :
       AfterSweep.removed[k] = "expired"
  /\ Recorded(AfterSweep.an, "expired")
       = Recorded(cacheAnalytics, "expired") + (Len(cache) - Len(AfterSweep.cache))
  /\ AfterSweep.cache = SelectSeq(cache, LAMBDA e : ~(e.expiresAt < now))

\* C21 witness: the sweep is due with two expired entries in the map.
C21_Witness ==
  /\ pending = <<>>
  /\ Len(cache) = 2
  /\ Stale("a")
  /\ Stale("b")
  /\ AfterSweep.cache = <<>>
  /\ Recorded(AfterSweep.an, "expired") = 2

\* C22: exists(k) returns true exactly when get(k) would return a value, and
\* a call of exists leaves the hit and miss counters, the analytics and
\* every entry that stays in the map unchanged, and takes no key but k out.
C22_ExistsIsSilent ==
  /\ [](\A k \in Keys :
          ExistsReturn(cache, k, now) <=> (GetReturn(cache, k, now) # Null))
  /\ [][\A k \in Keys :
          Exists(k) =>
            /\ UNCHANGED <<cacheAnalytics, totalRequests, totalHits, totalMisses>>
            /\ \A i \in 1..Len(cache') : MapHas(cache, cache'[i].key)
                                          /\ MapGet(cache, cache'[i].key) = cache'[i]
            /\ MapKeys(cache) \ MapKeys(cache') \subseteq {k}]_vars

\* C22 witness: an exists took the expired a out of the map: no delete and
\* no expired event is recorded for it, and b, read once, is still there.
C22_Witness ==
  /\ ~MapHas(cache, "a")
  /\ removedStatus["a"] = "active"
  /\ Recorded(cacheAnalytics, "deletes") = 0
  /\ Recorded(cacheAnalytics, "expired") = 0
  /\ MapHas(cache, "b")
  /\ MapGet(cache, "b").hitCount = 1

\* The statements the eviction of a call set(in.key, in.value, in.ttl,
\* in.type) made now would run.
EvictionOfSet(in) ==
  LET size == calculateSize(in.value)
      maxSize == LimitOf(cacheConfig, in.type)
      currentSize == calculateTotalSizeByType(cache, in.type) + size
  IN IF currentSize > maxSize
       THEN evictionStatements(Victims(cache, in.type, currentSize - maxSize,
                                       cacheConfig.evictionPolicy))
       ELSE <<>>

\* C23: for every entry an eviction removes, its status is set to evicted
\* and exactly one evicted event is recorded, both before the entry is
\* deleted from the map.
C23_EvictedMarkedBeforeRemoval ==
  \A in \in SetInputs :
    LET steps == EvictionOfSet(in)
    IN \A i \in 1..Len(steps) :
         steps[i].op = "delete" =>
           /\ \E j \in 1..(i - 1) : steps[j].op = "status" /\ steps[j].key = steps[i].key
           /\ \E j \in 1..(i - 1) : /\ steps[j].op = "updateAnalytics"
                                     /\ steps[j].key = steps[i].key
           /\ Cardinality({j \in 1..Len(steps) : /\ steps[j].op = "updateAnalytics"
                                                  /\ steps[j].key = steps[i].key}) = 1

\* Counter c of a per-category record; a counter the record does not hold
\* counts for nothing.
CategoryCounter(ta, c) == IF c \in DOMAIN ta THEN ta[c] ELSE 0

\* Counter c summed over the categories of a bucket's breakdown.
RECURSIVE SumCategories(_, _, _)
SumCategories(byType, types, c) ==
  IF types = {} THEN 0
  ELSE LET type == CHOOSE x \in types : TRUE
       IN CategoryCounter(byType[type], c) + SumCategories(byType, types \ {type}, c)

\* C24: in every bucket, for each of hits, misses, sets, deletes, expired and
\* evicted, the per-category counters add up to the bucket's counter.
C24_BreakdownMatchesTotals ==
  \A hourKey \in DOMAIN cacheAnalytics :
    \A c \in {"hits", "misses", "sets", "deletes", "expired", "evicted"} :
      SumCategories(cacheAnalytics[hourKey].byType,
                    DOMAIN cacheAnalytics[hourKey].byType, c)
        = cacheAnalytics[hourKey][c]

\* C25: totalRequests = totalHits + totalMisses in every state; a get adds
\* one to totalRequests and one to exactly one of totalHits and totalMisses,
\* and no other operation changes any of the three.
C25_RequestCounters ==
  /\ [](totalRequests = totalHits + totalMisses)
  /\ [][IF \E k \in Keys : Get(k)
          THEN /\ totalRequests' = totalRequests + 1
               /\ \/ totalHits' = totalHits + 1 /\ totalMisses' = totalMisses
                  \/ totalHits' = totalHits /\ totalMisses' = totalMisses + 1
          ELSE UNCHANGED <<totalRequests, totalHits, totalMisses>>]_vars

\* C25 witness: two gets were counted, one hit and one miss, and the entry
\* that was hit has since been looked up through getCacheEntry as well.
C25_Witness ==
  /\ totalRequests = 2
  /\ totalHits = 1
  /\ totalMisses = 1
  /\ \E i \in 1..Len(cache) : cache[i].hitCount = 2

\* The set a step belongs to: the one it suspends or the one it resumes.
SetOfStep == IF IsSetCall THEN pending'[Len(pending')] ELSE Head(pending)

\* C26 as stated: a set into category T leaves every entry of another
\* category in the map with all its fields unchanged.
C26_OtherCategoriesUntouched ==
  [][(IsSetCall \/ SetResume) =>
       \A i \in 1..Len(cache) :
         cache[i].type # SetOfStep.type =>
           /\ MapHas(cache', cache[i].key)
           /\ MapGet(cache', cache[i].key) = cache[i]]_vars

\* C26 amended: a set of key k into category T evicts only entries of T, and
\* leaves every entry of another category under a key other than k in the
\* map with all its fields unchanged; an entry under k itself is replaced
\* whatever its category.
C26_OtherCategoriesUntouchedButKey ==
  [][(IsSetCall \/ SetResume) =>
       /\ \A i \in 1..Len(cache) :
            (cache[i].type # SetOfStep.type /\ cache[i].key # SetOfStep.key) =>
              /\ MapHas(cache', cache[i].key)
              /\ MapGet(cache', cache[i].key) = cache[i]
       /\ IsSetCall =>
            \A i \in 1..Len(cache) :
              Dropped(cache[i].key) => cache[i].type = SetOfStep.type]_vars

\* C26 witness: a set into user evicted a, and b, of category system and
\* read once, is still in the map.
C26_Witness ==
  /\ removedStatus["a"] = "evicted"
  /\ MapHas(cache, "b")
  /\ MapGet(cache, "b").type = "system"
  /\ MapGet(cache, "b").hitCount = 1

\* C27: while the intervals are set, every entry whose expiresAt has passed
\* eventually leaves the map or stops being stale (overwritten or refreshed),
\* whether or not its key is read; once onModuleDestroy has cleared the
\* intervals they stay cleared, and expired events are recorded only by reads.
C27_SweepEventuallyRemoves ==
  /\ \A k \in Keys :
       Stale(k) ~> (~Stale(k) \/ backgroundProcesses = "stopped")
  /\ [][backgroundProcesses = "stopped" =>
         /\ backgroundProcesses' = "stopped"
         /\ Recorded(cacheAnalytics', "expired") > Recorded(cacheAnalytics, "expired")
              => totalRequests' = totalRequests + 1]_vars

\* C27 witness: the sweep removed a although no key was ever read.
C27_Witness ==
  /\ backgroundProcesses = "started"
  /\ totalRequests = 0
  /\ removedStatus["a"] = "expired"
  /\ ~MapHas(cache, "a")

\* The total of a category once the entry under key is replaced by one of
\* the given size.
TotalAfterReplacing(m, key, type, size) ==
  calculateTotalSizeByType(m, type) + size
    - (IF MapGet(m, key).type = type THEN MapGet(m, key).size ELSE 0)

\* C28: a set that overwrites a key already in the map, where the category's
\* total with the old value replaced by the new one is within the category's
\* maxSize, takes no other key out of the map.
C28_OverwriteWithinQuotaEvictsNothing ==
  [][(/\ IsSetCall
      /\ pending = <<>>
      /\ MapHas(cache, SetOfStep.key)
      /\ TotalAfterReplacing(cache, SetOfStep.key, SetOfStep.type, SetOfStep.size)
           <= LimitOf(cacheConfig, SetOfStep.type))
       => \A k \in Keys \ {SetOfStep.key} : ~Dropped(k)]_vars

\* C29: expiry is final: a key whose entry is stale before a step can be
\* read after the step only if the step is the insertion of a new set on
\* that key; in particular not after a refresh.
C29_ExpiryIsFinal ==
  [][\A k \in Keys :
       (Stale(k) /\ GetReturn(cache', k, now') # Null) =>
         /\ pending # <<>>
         /\ Head(pending).key = k
         /\ pending' = Tail(pending)]_vars

\* The keys a step removes as expired.
RemovedAsExpired == {k \in Keys : Stale(k) /\ ~MapHas(cache', k)}

\* C30: a get, an exists, a getCacheEntry or a sweep that finds a stale key
\* records one expired event for every entry it removes as expired.
C30_ExpiredEventPerRemoval ==
  [][\A k \in Keys :
       (/\ Stale(k)
        /\ Get(k) \/ Exists(k) \/ GetCacheEntry(k) \/ CleanExpiredEntries) =>
         Recorded(cacheAnalytics', "expired") =
           Recorded(cacheAnalytics, "expired") + Cardinality(RemovedAsExpired)]_vars

====
